---- MODULE Spec2Model ----
(***************************************************************************)
(* coordextract: the point assembler (factory/gpx_model_builder.py) and    *)
(* the command-line batch orchestrator (cli.py).                           *)
(*                                                                         *)
(* SpecGpx is process_gpx_to_point_models run on one parsed file.          *)
(* Spec    is one invocation of main: dispatch, process, process_directory,*)
(*         process_batch, the asyncio tasks it creates and asyncio.run.    *)
(***************************************************************************)
EXTENDS Integers, Sequences, FiniteSets, TLC

VARIABLES
    \* ---- process_gpx_to_point_models ----
    gpx,           \* what async_parse_gpx returns for the file: three sequences
    gpc,           \* position in the function: parse, parse_error, loop, done, raised
    point_type,    \* index into PointTypes of the outer loop (4 = exhausted)
    pos,           \* index of the inner loop in the current sequence
    point_models,  \* the list being built
    log,           \* logging.error calls made so far
    \* ---- cli.main ----
    inputs,        \* the INPUT arguments (resolved paths)
    output,        \* --output, or None
    concurrency,   \* --concurrency
    listing,       \* entries of the input directory (directory input only)
    mpc,           \* position in main
    mode,          \* the dispatch branch taken: dir, single, multi
    outputdir,     \* outputdir of process_batch
    files,         \* files of process_batch
    dirs,          \* directories that exist
    mkdirCalls,    \* number of outputdir.mkdir calls made
    tasks,         \* the pc coroutines: one asyncio task per file of a batch,
                   \* or the one coroutine awaited by process
    disk,          \* output files written by this run
    stdout,        \* what print wrote to standard output
    stderr,        \* what print wrote to standard error
    process_ret,   \* what process returned
    error,         \* the exception propagating out of asyncio.run, or None
    exitcode       \* the argument of sys.exit, or None

gpxVars == <<gpx, gpc, point_type, pos, point_models, log>>
cliVars == <<inputs, output, concurrency, listing, mpc, mode, outputdir, files,
             dirs, mkdirCalls, tasks, disk, stdout, stderr, process_ret, error,
             exitcode>>
vars == <<gpxVars, cliVars>>

None == "None"

(***************************************************************************)
(* Bounds                                                                  *)
(***************************************************************************)
\* most coordinate pairs in one file, over the three categories
MaxPoints == 3
\* most input files of one batch
MaxFiles == 3

(***************************************************************************)
(* Coordinates.  A coordinate is a float: a whole number of degrees here,  *)
(* or NaN.  NaN is a value outside every range, equal to nothing useful;   *)
(* the code only ever asks math.isnan of it.                               *)
(***************************************************************************)
NaN == 9999

isnan(x) == x = NaN

\* the pairs a parsed file may hold: two valid ones, a NaN latitude, a NaN
\* longitude, and a finite latitude outside [-90, 90]
Pairs == { <<38, -77>>, <<-45, 170>>, <<NaN, -77>>, <<38, NaN>>, <<200, 10>> }

SeqsUpTo(S, n) == UNION { [1..k -> S] : k \in 0..n }

\* Grid Converter: defined on finite in-range pairs only
InRange(latitude, longitude) ==
    /\ ~isnan(latitude) /\ ~isnan(longitude)
    /\ latitude >= -90 /\ latitude <= 90
    /\ longitude >= -180 /\ longitude <= 180

\* zone designator, latitude band, and the offsets inside the cell
latlon_to_mgrs(latitude, longitude) ==
    [ zone     |-> ((longitude + 180) \div 6) + 1,
      band     |-> (latitude + 90) \div 8,
      easting  |-> (longitude + 180) % 6,
      northing |-> (latitude + 90) % 8 ]

\* iteration order of points_with_types (a dict iterates in insertion order)
PointTypesSwapped == <<"trackpoint", "waypoint", "routepoint">>
PointTypes == <<"waypoint", "trackpoint", "routepoint">>

\* points_with_types[point type]
PointsOf(t) == gpx[t]

\* the sequence the inner loop is walking
CurPoints == PointsOf(PointTypes[point_type])

\* the condition of the skip branch
IsInvalid(latitude, longitude) == isnan(latitude) \/ isnan(longitude)

\* logging.error("Skipping invalid point with coordinates: %s, %s", lat, lon)
LogErrorDropped(l, latitude, longitude) == l
LogErrorSwapped(l, latitude, longitude) ==
    Append(l, [ level |-> "error",
                msg |-> "Skipping invalid point with coordinates",
                args |-> <<longitude, latitude>> ])
LogError(l, latitude, longitude) ==
    Append(l, [ level |-> "error",
                msg |-> "Skipping invalid point with coordinates",
                args |-> <<latitude, longitude>> ])

\* PointModel(name=None, gpxpoint=point_type, latitude=..., longitude=..., mgrs=...)
PointModelStale(t, latitude, longitude, mgrs) ==
    [ name |-> None, gpxpoint |-> t, latitude |-> latitude,
      longitude |-> longitude, mgrs |-> latlon_to_mgrs(38, -77) ]
PointModelWaypoint(t, latitude, longitude, mgrs) ==
    [ name |-> None, gpxpoint |-> "waypoint", latitude |-> latitude,
      longitude |-> longitude, mgrs |-> mgrs ]
PointModel(t, latitude, longitude, mgrs) ==
    [ name |-> None, gpxpoint |-> t, latitude |-> latitude,
      longitude |-> longitude, mgrs |-> mgrs ]

\* point_models.append(point_model)
AppendModel(l, m) == Append(l, m)

GpxIdle ==
    /\ gpx = [ waypoint |-> <<>>, trackpoint |-> <<>>, routepoint |-> <<>> ]
    /\ gpc = "idle"
    /\ point_type = 1
    /\ pos = 1
    /\ point_models = <<>>
    /\ log = <<>>

\* a file of at most MaxPoints pairs, split into the three categories
GpxInit ==
    /\ \E all \in SeqsUpTo(Pairs, MaxPoints) :
         \E i \in 0..Len(all) : \E j \in i..Len(all) :
            gpx = [ waypoint   |-> SubSeq(all, 1, i),
                    trackpoint |-> SubSeq(all, i + 1, j),
                    routepoint |-> SubSeq(all, j + 1, Len(all)) ]
    /\ gpc = "parse"
    /\ point_type = 1
    /\ pos = 1
    /\ point_models = <<>>
    /\ log = <<>>

\* waypoints, trackpoints, routepoints = await async_parse_gpx(gpx_file_path)
ParseGpx ==
    /\ gpc = "parse"
    /\ gpc' = "loop"
    /\ point_type' = 1
    /\ pos' = 1
    /\ point_models' = <<>>
    /\ UNCHANGED <<gpx, log, cliVars>>

\* the parser raises: nothing is caught here
ParseRaise ==
    /\ gpc = "parse"
    /\ gpc' = "parse_error"
    /\ UNCHANGED <<gpx, point_type, pos, point_models, log, cliVars>>

InLoop ==
    /\ gpc = "loop"
    /\ point_type <= Len(PointTypes)
    /\ pos <= Len(CurPoints)

\* if math.isnan(latitude) or math.isnan(longitude): logging.error(...); continue
SkipInvalid ==
    /\ InLoop
    /\ LET latitude == CurPoints[pos][1]
           longitude == CurPoints[pos][2]
       IN  /\ IsInvalid(latitude, longitude)
           /\ log' = LogError(log, latitude, longitude)
    /\ pos' = pos + 1
    /\ UNCHANGED <<gpx, gpc, point_type, point_models, cliVars>>

\* mgrs = latlon_to_mgrs(...); point_models.append(PointModel(...))
AppendPoint ==
    /\ InLoop
    /\ LET latitude == CurPoints[pos][1]
           longitude == CurPoints[pos][2]
       IN  /\ ~IsInvalid(latitude, longitude)
           /\ InRange(latitude, longitude)
           /\ point_models' =
                AppendModel(point_models,
                            PointModel(PointTypes[point_type], latitude, longitude,
                                       latlon_to_mgrs(latitude, longitude)))
    /\ pos' = pos + 1
    /\ UNCHANGED <<gpx, gpc, point_type, log, cliVars>>

\* latlon_to_mgrs raises: the function has no handler, the error leaves it
ConvertSkip ==
    /\ InLoop
    /\ LET latitude == CurPoints[pos][1]
           longitude == CurPoints[pos][2]
       IN  /\ ~IsInvalid(latitude, longitude)
           /\ ~InRange(latitude, longitude)
    /\ pos' = pos + 1
    /\ UNCHANGED <<gpx, gpc, point_type, point_models, log, cliVars>>
ConvertRaise ==
    /\ InLoop
    /\ LET latitude == CurPoints[pos][1]
           longitude == CurPoints[pos][2]
       IN  /\ ~IsInvalid(latitude, longitude)
           /\ ~InRange(latitude, longitude)
    /\ gpc' = "raised"
    /\ UNCHANGED <<gpx, point_type, pos, point_models, log, cliVars>>

\* the inner loop is exhausted: next item of points_with_types
NextPointType ==
    /\ gpc = "loop"
    /\ point_type <= Len(PointTypes)
    /\ pos > Len(CurPoints)
    /\ point_type' = point_type + 1
    /\ pos' = 1
    /\ UNCHANGED <<gpx, gpc, point_models, log, cliVars>>

\* return point_models
ReturnModelsRaiseEmpty ==
    /\ gpc = "loop"
    /\ point_type > Len(PointTypes)
    /\ gpc' = IF point_models = <<>> THEN "raised" ELSE "done"
    /\ UNCHANGED <<gpx, point_type, pos, point_models, log, cliVars>>
ReturnModels ==
    /\ gpc = "loop"
    /\ point_type > Len(PointTypes)
    /\ gpc' = "done"
    /\ UNCHANGED <<gpx, point_type, pos, point_models, log, cliVars>>

GpxNext ==
    \/ ParseGpx
    \/ ParseRaise
    \/ SkipInvalid
    \/ AppendPoint
    \/ ConvertRaise
    \/ NextPointType
    \/ ReturnModels


(***************************************************************************)
(* Paths (pathlib).  A path is its parent's components, and the stem and   *)
(* suffix of its last component.  Path(".") has an empty name.             *)
(***************************************************************************)
MkPath(parent, stem, suffix) == [ parent |-> parent, stem |-> stem, suffix |-> suffix ]

\* Path(".")
Cwd == MkPath(<<>>, "", "")

\* d / (stem + suffix), for a directory d whose name has no suffix
Join(d, stem, suffix) ==
    MkPath(IF d.stem = "" THEN d.parent ELSE Append(d.parent, d.stem), stem, suffix)

\* the directory given as INPUT, another directory holding track files, and
\* the directory given as --output
InDir == MkPath(<<"data">>, "in", "")
OtherDir == MkPath(<<"data">>, "other", "")
OutOpt == MkPath(<<"data">>, "out", "")

\* names a directory entry may have: track files, another file with the stem
\* of one of them, and the output directory an earlier run left behind
GpxNames == { <<"x", ".gpx">>, <<"y", ".gpx">>, <<"z", ".gpx">> }
OldOutput == <<"coordextract_output", "">>
EntryNames == GpxNames \cup { <<"x", ".txt">>, OldOutput }

Entry(n) == Join(InDir, n[1], n[2])

\* files that may be given as INPUT: those of the input directory, and one of
\* another directory with the name of one of them
InputFiles == { Entry(n) : n \in GpxNames } \cup { Join(OtherDir, "x", ".gpx") }

\* sequences without repetition over S, of the lengths in L
DistinctSeqs(S, L) ==
    UNION { { s \in [1..k -> S] : \A i, j \in 1..k : i # j => s[i] # s[j] } : k \in L }

\* Optional[Path]: None or a path
NoPath == <<>>
Some(p) == <<p>>

\* Python values handed back by pc and process
PyUnset == [ py |-> "unset" ]
PyNone == [ py |-> "None" ]
\* the serialized JSON text of a file's point models
JsonOf(f) == [ py |-> "str", json_of |-> f ]

\* errors a pipeline raises: parse and conversion errors, read and write errors
Errors == { "ValueError", "OSError" }

is_dir(p) == p = InDir

\* line 124: output or inputdir / "coordextract_output"
DirOutputDirCwd(out, inputdir) ==
    IF out # NoPath THEN out[1] ELSE Join(Cwd, "coordextract_output", "")
DirOutputDir(out, inputdir) ==
    IF out # NoPath THEN out[1] ELSE Join(inputdir, "coordextract_output", "")

\* line 139: output or Path(".")
MultiOutputDir(out) ==
    IF out # NoPath THEN out[1] ELSE Cwd

\* line 89: file.suffix == ".gpx"
IsGpxAny(file) == TRUE
IsGpx(file) == file.suffix = ".gpx"

\* line 75: outputdir / f"{file.stem}.json"
OutputFile(dir, file) == Join(dir, file.stem, ".json")

\* a pc coroutine just created for one file
NewTask(file, out, status) ==
    [ file |-> file, out |-> out, status |-> status, ret |-> PyUnset, exc |-> None,
      first |-> FALSE ]

\* lines 73-78: one task per file, in the order of files
MakeTasksTwice(fs, dir) ==
    [ i \in 1..(2 * Len(fs)) |->
        NewTask(fs[((i - 1) % Len(fs)) + 1],
                Some(OutputFile(dir, fs[((i - 1) % Len(fs)) + 1])), "pending") ]
MakeTasks(fs, dir) ==
    [ i \in 1..Len(fs) |-> NewTask(fs[i], Some(OutputFile(dir, fs[i])), "pending") ]

\* writing a file replaces what the path held
WriteFile(d, path, content) ==
    { e \in d : e.path # path } \cup { [ path |-> path, content |-> content ] }

Finished(t) == t.status \in { "succeeded", "failed", "cancelled" }
InFlight(t) == t.status \in { "reading", "writing" }

CliIdle ==
    /\ inputs = <<>>
    /\ output = NoPath
    /\ concurrency = FALSE
    /\ listing = {}
    /\ mpc = "idle"
    /\ mode = None
    /\ outputdir = Cwd
    /\ files = <<>>
    /\ dirs = {}
    /\ mkdirCalls = 0
    /\ tasks = <<>>
    /\ disk = {}
    /\ stdout = <<>>
    /\ stderr = <<>>
    /\ process_ret = PyUnset
    /\ error = None
    /\ exitcode = <<>>

\* one invocation: a directory, one file, or two to MaxFiles distinct files
CliInit ==
    /\ \/ /\ inputs = <<InDir>>
          /\ listing \in SUBSET EntryNames
       \/ /\ inputs \in DistinctSeqs(InputFiles, 1..MaxFiles)
          /\ listing = { n \in GpxNames : \E i \in 1..Len(inputs) : inputs[i] = Entry(n) }
    /\ output \in { NoPath, Some(OutOpt) }
    /\ concurrency \in BOOLEAN
    /\ mpc = "main"
    /\ mode = None
    /\ outputdir = Cwd
    /\ files = <<>>
    /\ \E pre \in BOOLEAN :
         dirs = { Cwd, InDir, OtherDir }
                  \cup (IF OldOutput \in listing
                        THEN { Join(InDir, OldOutput[1], OldOutput[2]) } ELSE {})
                  \cup (IF pre THEN { OutOpt } ELSE {})
    /\ mkdirCalls = 0
    /\ tasks = <<>>
    /\ disk = {}
    /\ stdout = <<>>
    /\ stderr = <<>>
    /\ process_ret = PyUnset
    /\ error = None
    /\ exitcode = <<>>

\* lines 122-124: one input, a directory
DispatchDir ==
    /\ mpc = "main"
    /\ Len(inputs) = 1 /\ is_dir(inputs[1])
    /\ mode' = "dir"
    /\ outputdir' = DirOutputDir(output, inputs[1])
    /\ mpc' = "process_directory"
    /\ UNCHANGED <<inputs, output, concurrency, listing, files, dirs, mkdirCalls,
                   tasks, disk, stdout, stderr, process_ret, error, exitcode, gpxVars>>

\* lines 132-135: one input, not a directory.  process awaits pc(inputfile, output, ...)
DispatchSingle ==
    /\ mpc = "main"
    /\ Len(inputs) = 1 /\ ~is_dir(inputs[1])
    /\ mode' = "single"
    /\ tasks' = << NewTask(inputs[1], output, "reading") >>
    /\ mpc' = "process"
    /\ UNCHANGED <<inputs, output, concurrency, listing, outputdir, files, dirs,
                   mkdirCalls, disk, stdout, stderr, process_ret, error, exitcode,
                   gpxVars>>

\* lines 138-141: several inputs
DispatchMulti ==
    /\ mpc = "main"
    /\ Len(inputs) # 1
    /\ mode' = "multi"
    /\ outputdir' = MultiOutputDir(output)
    /\ files' = inputs
    /\ mpc' = "mkdir"
    /\ UNCHANGED <<inputs, output, concurrency, listing, dirs, mkdirCalls, tasks,
                   disk, stdout, stderr, process_ret, error, exitcode, gpxVars>>

\* line 89: the .gpx entries, in whatever order iterdir yields them
ProcessDirectory ==
    /\ mpc = "process_directory"
    /\ LET gpxfiles == { f \in { Entry(n) : n \in listing } : IsGpx(f) }
       IN  files' \in DistinctSeqs(gpxfiles, { Cardinality(gpxfiles) })
    /\ mpc' = "mkdir"
    /\ UNCHANGED <<inputs, output, concurrency, listing, mode, outputdir, dirs,
                   mkdirCalls, tasks, disk, stdout, stderr, process_ret, error,
                   exitcode, gpxVars>>

\* line 72: outputdir.mkdir(parents=True, exist_ok=True)
BatchMkdirSkipped ==
    /\ mpc = "mkdir"
    /\ mpc' = "create_tasks"
    /\ UNCHANGED <<inputs, output, concurrency, listing, mode, outputdir, files,
                   dirs, mkdirCalls, tasks, disk, stdout, stderr, process_ret, error,
                   exitcode, gpxVars>>
BatchMkdir ==
    /\ mpc = "mkdir"
    /\ dirs' = dirs \cup { outputdir }
    /\ mkdirCalls' = mkdirCalls + 1
    /\ mpc' = "create_tasks"
    /\ UNCHANGED <<inputs, output, concurrency, listing, mode, outputdir, files,
                   tasks, disk, stdout, stderr, process_ret, error, exitcode, gpxVars>>

\* line 72 raises OSError (no permission, a file in the way): process_batch ends
BatchMkdirFail ==
    /\ mpc = "mkdir"
    /\ outputdir \notin dirs
    /\ mkdirCalls' = mkdirCalls + 1
    /\ error' = "OSError"
    /\ mpc' = "shutdown"
    /\ UNCHANGED <<inputs, output, concurrency, listing, mode, outputdir, files,
                   dirs, tasks, disk, stdout, stderr, process_ret, exitcode, gpxVars>>

\* lines 73-78: the list comprehension creates every task; none has run yet
CreateTasks ==
    /\ mpc = "create_tasks"
    /\ tasks' = MakeTasks(files, outputdir)
    /\ mpc' = "gather"
    /\ UNCHANGED <<inputs, output, concurrency, listing, mode, outputdir, files,
                   dirs, mkdirCalls, disk, stdout, stderr, process_ret, error,
                   exitcode, gpxVars>>

SetTask(i, t) == [ tasks EXCEPT ![i] = t ]

\* task i ends with exception e.  gather's future takes the exception of the
\* first task that fails and ignores those of later ones: first marks that task
FailTask(i, e) ==
    SetTask(i, [ tasks[i] EXCEPT !.status = "failed", !.exc = e,
                                 !.first = \A j \in 1..Len(tasks) : ~tasks[j].first ])

\* the event loop runs the first step of the tasks in the order of creation
MayStartAny(i) == tasks[i].status = "pending"
MayStart(i) ==
    /\ tasks[i].status = "pending"
    /\ \A j \in 1..(i - 1) : tasks[j].status # "pending"

\* the loop runs while process_batch awaits, and until asyncio.run shuts it down
LoopRunning == mpc \in { "gather", "process", "shutdown" }

\* a task starts: pc runs up to its first suspension, the read of the file
TaskStart(i) ==
    /\ LoopRunning
    /\ MayStart(i)
    /\ tasks' = SetTask(i, [ tasks[i] EXCEPT !.status = "reading" ])
    /\ UNCHANGED <<inputs, output, concurrency, listing, mpc, mode, outputdir, files,
                   dirs, mkdirCalls, disk, stdout, stderr, process_ret, error,
                   exitcode, gpxVars>>

\* the read completes; parse, assemble and serialize run without suspending.
\* With no output file pc returns the text; otherwise it goes on to write it
TaskParsed(i) ==
    /\ LoopRunning
    /\ tasks[i].status = "reading"
    /\ tasks' = SetTask(i,
         IF tasks[i].out = NoPath
         THEN [ tasks[i] EXCEPT !.status = "succeeded", !.ret = JsonOf(tasks[i].file) ]
         ELSE [ tasks[i] EXCEPT !.status = "writing" ])
    /\ UNCHANGED <<inputs, output, concurrency, listing, mpc, mode, outputdir, files,
                   dirs, mkdirCalls, disk, stdout, stderr, process_ret, error,
                   exitcode, gpxVars>>

\* the read, the parser or the converter raises
TaskParseFail(i) ==
    /\ LoopRunning
    /\ tasks[i].status = "reading"
    /\ \E e \in Errors : tasks' = FailTask(i, e)
    /\ UNCHANGED <<inputs, output, concurrency, listing, mpc, mode, outputdir, files,
                   dirs, mkdirCalls, disk, stdout, stderr, process_ret, error,
                   exitcode, gpxVars>>

\* the write completes: the output file holds the text, pc returns None
TaskWritten(i) ==
    /\ LoopRunning
    /\ tasks[i].status = "writing"
    /\ disk' = WriteFile(disk, tasks[i].out[1], JsonOf(tasks[i].file))
    /\ tasks' = SetTask(i, [ tasks[i] EXCEPT !.status = "succeeded", !.ret = PyNone ])
    /\ UNCHANGED <<inputs, output, concurrency, listing, mpc, mode, outputdir, files,
                   dirs, mkdirCalls, stdout, stderr, process_ret, error, exitcode,
                   gpxVars>>

\* the write raises
TaskWriteFail(i) ==
    /\ LoopRunning
    /\ tasks[i].status = "writing"
    /\ tasks' = FailTask(i, "OSError")
    /\ UNCHANGED <<inputs, output, concurrency, listing, mpc, mode, outputdir, files,
                   dirs, mkdirCalls, disk, stdout, stderr, process_ret, error,
                   exitcode, gpxVars>>

\* line 79: every task has succeeded, gather returns, process_batch returns
GatherReturnWhenAllDone ==
    /\ mpc = "gather"
    /\ \A i \in 1..Len(tasks) : Finished(tasks[i])
    /\ error' = None
    /\ mpc' = "shutdown"
    /\ UNCHANGED <<inputs, output, concurrency, listing, mode, outputdir, files,
                   dirs, mkdirCalls, tasks, disk, stdout, stderr, process_ret,
                   exitcode, gpxVars>>
GatherReturn ==
    /\ mpc = "gather"
    /\ \A i \in 1..Len(tasks) : tasks[i].status = "succeeded"
    /\ error' = None
    /\ mpc' = "shutdown"
    /\ UNCHANGED <<inputs, output, concurrency, listing, mode, outputdir, files,
                   dirs, mkdirCalls, tasks, disk, stdout, stderr, process_ret,
                   exitcode, gpxVars>>

\* line 79: gather (return_exceptions=False) hands a task's exception to its
\* awaiter and leaves the other tasks alone.  Every first step was queued
\* before the await, so every task has started by then
GatherCancelsSiblings(ts) ==
    [ i \in 1..Len(ts) |->
        IF Finished(ts[i]) THEN ts[i] ELSE [ ts[i] EXCEPT !.status = "cancelled" ] ]
GatherLeaves(ts) == ts

\* the exception gather raises: that of the first task that failed
GatherError(ts) == ts[CHOOSE i \in 1..Len(ts) : ts[i].first].exc

GatherRaise ==
    /\ mpc = "gather"
    /\ \A i \in 1..Len(tasks) : tasks[i].status # "pending"
    /\ \E i \in 1..Len(tasks) : tasks[i].status = "failed"
    /\ error' = GatherError(tasks)
    /\ tasks' = GatherLeaves(tasks)
    /\ mpc' = "shutdown"
    /\ UNCHANGED <<inputs, output, concurrency, listing, mode, outputdir, files,
                   dirs, mkdirCalls, disk, stdout, stderr, process_ret, exitcode,
                   gpxVars>>

\* lines 60-62: what process does with the value of pc
ProcessResult(json_str) == PyNone

\* lines 57-62: pc returned; print the text if there is one, return None
ProcessReturn ==
    /\ mpc = "process"
    /\ tasks[1].status = "succeeded"
    /\ stdout' = IF tasks[1].ret # PyNone THEN Append(stdout, tasks[1].ret) ELSE stdout
    /\ process_ret' = ProcessResult(tasks[1].ret)
    /\ error' = None
    /\ mpc' = "shutdown"
    /\ UNCHANGED <<inputs, output, concurrency, listing, mode, outputdir, files,
                   dirs, mkdirCalls, tasks, disk, stderr, exitcode, gpxVars>>

\* line 57: pc raised; process has no handler
ProcessRaise ==
    /\ mpc = "process"
    /\ tasks[1].status = "failed"
    /\ error' = tasks[1].exc
    /\ mpc' = "shutdown"
    /\ UNCHANGED <<inputs, output, concurrency, listing, mode, outputdir, files,
                   dirs, mkdirCalls, tasks, disk, stdout, stderr, process_ret,
                   exitcode, gpxVars>>

\* asyncio.run ends: the main coroutine is done, every task still unfinished is
\* cancelled, the loop is closed, and the result or the exception comes out
RunCancelsTasks(ts) ==
    [ i \in 1..Len(ts) |->
        IF Finished(ts[i]) THEN ts[i] ELSE [ ts[i] EXCEPT !.status = "cancelled" ] ]

RunShutdown ==
    /\ mpc = "shutdown"
    /\ tasks' = RunCancelsTasks(tasks)
    /\ mpc' = IF error = None THEN "exit0" ELSE "except"
    /\ UNCHANGED <<inputs, output, concurrency, listing, mode, outputdir, files,
                   dirs, mkdirCalls, disk, stdout, stderr, process_ret, error,
                   exitcode, gpxVars>>

\* lines 144-150: the exception classes the except clause names
Caught == { "ValueError", "OSError", "RuntimeError", "NotImplementedError",
            "ValidationError" }

\* whether the except clause takes an exception
HandlesAll(e) == TRUE
Handles(e) == e \in Caught

\* lines 130, 137, 143: sys.exit(0) raises SystemExit inside the try block; the
\* except clause does not name it, so it leaves main: exit code 0.  (Were it
\* caught, the handler would print it and exit 1.)
SysExit0 ==
    /\ mpc = "exit0"
    /\ IF Handles("SystemExit")
       THEN /\ stderr' = Append(stderr, "SystemExit")
            /\ exitcode' = <<1>>
       ELSE /\ stderr' = stderr
            /\ exitcode' = <<0>>
    /\ mpc' = "exited"
    /\ UNCHANGED <<inputs, output, concurrency, listing, mode, outputdir, files,
                   dirs, mkdirCalls, tasks, disk, stdout, process_ret, error,
                   gpxVars>>

\* lines 144-152: print(str(e), file=sys.stderr); sys.exit(1)
ExceptHandler ==
    /\ mpc = "except"
    /\ Handles(error)
    /\ stderr' = Append(stderr, error)
    /\ exitcode' = <<1>>
    /\ mpc' = "exited"
    /\ UNCHANGED <<inputs, output, concurrency, listing, mode, outputdir, files,
                   dirs, mkdirCalls, tasks, disk, stdout, process_ret, error,
                   gpxVars>>

CliNext ==
    \/ DispatchDir
    \/ DispatchSingle
    \/ DispatchMulti
    \/ ProcessDirectory
    \/ BatchMkdir
    \/ BatchMkdirFail
    \/ CreateTasks
    \/ \E i \in 1..Len(tasks) : TaskStart(i)
    \/ \E i \in 1..Len(tasks) : TaskParsed(i)
    \/ \E i \in 1..Len(tasks) : TaskParseFail(i)
    \/ \E i \in 1..Len(tasks) : TaskWritten(i)
    \/ \E i \in 1..Len(tasks) : TaskWriteFail(i)
    \/ GatherReturn
    \/ GatherRaise
    \/ ProcessReturn
    \/ ProcessRaise
    \/ RunShutdown
    \/ SysExit0
    \/ ExceptHandler

(***************************************************************************)
(* Specifications                                                          *)
(***************************************************************************)
Init == GpxIdle /\ CliInit
Next == CliNext
Spec == Init /\ [][Next]_vars

InitGpx == GpxInit /\ CliIdle
NextGpx == GpxNext
SpecGpx == InitGpx /\ [][NextGpx]_vars

(***************************************************************************)
(* Properties of process_gpx_to_point_models (checked under SpecGpx)       *)
(***************************************************************************)
\* the pairs of the file in the order the parser returned them
AllPairs == gpx.waypoint \o gpx.trackpoint \o gpx.routepoint

HasNaN(p) == p[1] = NaN \/ p[2] = NaN
NoNaN(p) == ~HasNaN(p)

\* the non-NaN pairs of one category, each tagged with the category
Tagged(t) ==
    LET kept == SelectSeq(gpx[t], NoNaN)
    IN  [ i \in 1..Len(kept) |-> <<t, kept[i][1], kept[i][2]>> ]

\* category and coordinates of each returned record, in order
Returned ==
    [ i \in 1..Len(point_models) |->
        <<point_models[i].gpxpoint, point_models[i].latitude, point_models[i].longitude>> ]

\* C1: the returned sequence holds the records of the waypoints, then those of
\* the trackpoints, then those of the routepoints, each group in the order of
\* its pairs in the parser's sequence
C1_OutputOrdering ==
    gpc = "done" =>
        Returned = Tagged("waypoint") \o Tagged("trackpoint") \o Tagged("routepoint")

\* C1 witness: a returned sequence with two different waypoints followed by a
\* record of a later category
C1_Witness ==
    /\ gpc = "done"
    /\ Len(point_models) = 3
    /\ point_models[1].gpxpoint = "waypoint"
    /\ point_models[2].gpxpoint = "waypoint"
    /\ point_models[1].latitude # point_models[2].latitude
    /\ point_models[3].gpxpoint # "waypoint"

\* what the log holds when every NaN pair got exactly one entry, in order
ExpectedLog ==
    LET bad == SelectSeq(AllPairs, HasNaN)
    IN  [ i \in 1..Len(bad) |-> <<bad[i][1], bad[i][2]>> ]

LoggedArgs == [ i \in 1..Len(log) |-> log[i].args ]

Counts ==
    /\ Len(point_models) = Len(SelectSeq(AllPairs, NoNaN))
    /\ LoggedArgs = ExpectedLog

\* C2 as stated: whenever the function has ended on the parser's sequences, by
\* returning or by raising, every NaN pair has exactly one diagnostic and no
\* record, and every other pair has exactly one record
C2_Original ==
    gpc \in { "done", "raised" } => Counts

\* C2 amended: when the function returns, every NaN pair has got exactly one
\* diagnostic and no record, and every other pair exactly one record: the output
\* length is the number of non-NaN pairs, the diagnostics are those of the NaN
\* pairs
C2_SkipAndLogOnReturn ==
    gpc = "done" => Counts

\* C2 witness: a file with a NaN pair and a valid sibling has been returned
C2_Witness ==
    /\ gpc = "done"
    /\ Len(log) >= 1
    /\ Len(point_models) >= 1
    /\ \E i \in 1..Len(AllPairs) : AllPairs[i][2] = NaN /\ AllPairs[i][1] # NaN

\* the pair the loops stand on
CurPair == CurPoints[pos]

\* pairs the loops have already passed
Passed ==
    LET before == IF point_type = 1 THEN <<>>
                  ELSE IF point_type = 2 THEN gpx.waypoint
                  ELSE IF point_type = 3 THEN gpx.waypoint \o gpx.trackpoint
                  ELSE AllPairs
    IN  IF point_type > Len(PointTypes) THEN AllPairs
        ELSE before \o SubSeq(CurPoints, 1, pos - 1)

Convertible(p) == InRange(p[1], p[2])

\* C13: an error of the converter on a non-NaN pair is not caught: the function
\* ends raised at that pair, having handled exactly the pairs before it, and
\* takes no further step (no later pair is processed, nothing is returned).  A
\* pair the converter rejects is never skipped: the function returns only for
\* files whose pairs are all NaN pairs or convertible
C13_ConverterErrorPropagates ==
    /\ gpc = "raised" =>
          /\ ~ENABLED NextGpx
          /\ point_type <= Len(PointTypes) /\ pos <= Len(CurPoints)
          /\ NoNaN(CurPair) /\ ~Convertible(CurPair)
          /\ Len(point_models) + Len(log) = Len(Passed)
          /\ \A i \in 1..Len(Passed) : HasNaN(Passed[i]) \/ Convertible(Passed[i])
    /\ gpc = "done" =>
          \A i \in 1..Len(AllPairs) : HasNaN(AllPairs[i]) \/ Convertible(AllPairs[i])
    /\ (gpc = "loop" /\ point_type <= Len(PointTypes)) =>
          \A i \in 1..Len(Passed) : HasNaN(Passed[i]) \/ Convertible(Passed[i])

\* C13 witness: the function raised at an out-of-range pair after a record and
\* a skipped NaN pair, with a valid pair still unprocessed after it
C13_Witness ==
    /\ gpc = "raised"
    /\ Len(point_models) = 1
    /\ Len(log) = 1
    /\ Len(AllPairs) = Len(Passed) + 1

\* C14: every record's grid reference is the converter's result on the latitude
\* and longitude stored in that record, and these are the values of the input
\* pair it was built from
C14_GridRefFromStoredCoordinates ==
    /\ \A i \in 1..Len(point_models) :
          /\ point_models[i].mgrs =
                latlon_to_mgrs(point_models[i].latitude, point_models[i].longitude)
          /\ \E k \in 1..Len(gpx[point_models[i].gpxpoint]) :
                gpx[point_models[i].gpxpoint][k] =
                    <<point_models[i].latitude, point_models[i].longitude>>
    /\ gpc = "done" =>
          [ i \in 1..Len(point_models) |->
              <<point_models[i].latitude, point_models[i].longitude>> ]
            = SelectSeq(AllPairs, NoNaN)

\* C14 witness: two returned records with different coordinates and different
\* grid references
C14_Witness ==
    /\ gpc = "done"
    /\ Len(point_models) >= 2
    /\ point_models[1].latitude # point_models[2].latitude
    /\ point_models[1].mgrs # point_models[2].mgrs

AllInvalid == \A i \in 1..Len(AllPairs) : HasNaN(AllPairs[i])

\* C15: on a file whose pairs are all NaN pairs, or that has no points, the
\* function raises no error, can always take its next step until it returns,
\* and what it returns is the empty sequence
C15_EmptyResultIsNotAnError ==
    AllInvalid =>
        /\ gpc # "raised"
        /\ point_models = <<>>
        /\ gpc = "loop" => ENABLED NextGpx

\* C15 witness: a file of two NaN pairs has been returned as the empty sequence
C15_Witness ==
    /\ gpc = "done"
    /\ Len(AllPairs) = 2
    /\ AllInvalid
    /\ point_models = <<>>
    /\ Len(log) = 2

\* the categories of the file
Categories == { PointTypes[i] : i \in 1..Len(PointTypes) }

\* C16 as stated: every diagnostic carries the category of the point with its
\* raw latitude and longitude
C16_Original ==
    \A i \in 1..Len(log) :
        /\ Len(log[i].args) = 3
        /\ log[i].args[1] \in Categories

\* C16 amended: every diagnostic carries the raw latitude and longitude of the
\* skipped pair, in that order, and nothing else: the i-th diagnostic holds the
\* values of the i-th NaN pair passed
C16_DiagnosticHoldsRawValues ==
    LET bad == SelectSeq(Passed, HasNaN)
    IN  /\ Len(log) = Len(bad)
        /\ \A i \in 1..Len(log) :
              /\ log[i].level = "error"
              /\ Len(log[i].args) = 2
              /\ log[i].args = <<bad[i][1], bad[i][2]>>

\* C16 witness: a trackpoint with a NaN longitude has been logged
C16_Witness ==
    /\ gpx.trackpoint # <<>>
    /\ gpx.trackpoint[1] = <<38, NaN>>
    /\ gpx.waypoint = <<>>
    /\ Len(log) >= 1
    /\ log[1].args = <<38, NaN>>

\* how many non-NaN pairs a category holds
Kept(t) == Len(SelectSeq(gpx[t], NoNaN))

\* C19: every record has name None and a category among waypoint, trackpoint,
\* routepoint, which is the category of the sequence its pair came from: the
\* returned categories are waypoint for each kept waypoint, then trackpoint for
\* each kept trackpoint, then routepoint for each kept routepoint
C19_NameNoneAndCategory ==
    /\ \A i \in 1..Len(point_models) :
          /\ point_models[i].name = None
          /\ point_models[i].gpxpoint \in { "waypoint", "trackpoint", "routepoint" }
    /\ gpc = "done" =>
          /\ Len(point_models) = Kept("waypoint") + Kept("trackpoint") + Kept("routepoint")
          /\ \A i \in 1..Len(point_models) :
                point_models[i].gpxpoint =
                    IF i <= Kept("waypoint") THEN "waypoint"
                    ELSE IF i <= Kept("waypoint") + Kept("trackpoint") THEN "trackpoint"
                    ELSE "routepoint"

\* C19 witness: one record of each category has been returned
C19_Witness ==
    /\ gpc = "done"
    /\ Len(point_models) = 3
    /\ point_models[1].gpxpoint = "waypoint"
    /\ point_models[2].gpxpoint = "trackpoint"
    /\ point_models[3].gpxpoint = "routepoint"

(***************************************************************************)
(* Properties of main, process, process_directory and process_batch        *)
(* (checked under Spec)                                                    *)
(***************************************************************************)
Batch == mode \in { "dir", "multi" }
Success == mpc = "exited" /\ exitcode = <<0>>
TaskIds == 1..Len(tasks)
InFlightIds == { i \in TaskIds : InFlight(tasks[i]) }

\* C3 as stated: after a batch in which a task failed, every sibling has run to
\* completion on its own: each task is succeeded or failed, none is cancelled
C3_Original ==
    (Batch /\ mpc = "exited") =>
        \A i \in TaskIds : tasks[i].status \in { "succeeded", "failed" }

\* C3 amended: gather cancels no sibling of a failed task: while process_batch
\* is awaiting, and until asyncio.run shuts the loop down, no task is cancelled.
\* A task is cancelled only by the shutdown of asyncio.run, after process_batch
\* raised the error of a failed task; and once asyncio.run has ended no task is
\* left running: each is succeeded, failed or cancelled
C3_CancelledOnlyByRunShutdown ==
    /\ \A i \in TaskIds :
          tasks[i].status = "cancelled" =>
              /\ mpc \in { "except", "exited" }
              /\ error # None
              /\ \E j \in TaskIds : tasks[j].status = "failed"
    /\ mpc \in { "exit0", "except", "exited" } =>
          \A i \in TaskIds : Finished(tasks[i])

\* C3 witness: a batch has ended with a failed task, a sibling that was still
\* in flight and got cancelled, and a sibling that had finished and written
C3_Witness ==
    /\ Batch
    /\ mpc = "exited"
    /\ \E i, j, k \in TaskIds :
         /\ tasks[i].status = "failed"
         /\ tasks[j].status = "cancelled"
         /\ tasks[k].status = "succeeded"
         /\ \E e \in disk : e.path = tasks[k].out[1]

\* the outputs a batch over files leaves when every file gets its own
ExpectedOutputs ==
    { [ path |-> Join(outputdir, files[i].stem, ".json"), content |-> JsonOf(files[i]) ] :
        i \in 1..Len(files) }

\* C4: whatever the concurrency flag and the interleaving, a batch whose files
\* all process without error leaves the same outputs: for each file its output
\* path holding its JSON text
C4_SchedulingIndependence ==
    (Batch /\ Success) => disk = ExpectedOutputs

\* C5 as stated: with the concurrency flag false at most one file's pipeline is
\* in flight at any moment
C5_Original ==
    (Batch /\ ~concurrency) => Cardinality(InFlightIds) <= 1

\* C5 amended: whatever the flag, process_batch creates one task per file in
\* input order and the pipelines start in that order, but a pipeline may start
\* before the one before it has finished: several can be in flight at once
C5_StartInInputOrder ==
    (Batch /\ tasks # <<>>) =>
        /\ Len(tasks) = Len(files)
        /\ \A i \in TaskIds : tasks[i].file = files[i]
        /\ \A i, j \in TaskIds :
             (i < j /\ tasks[j].status # "pending") => tasks[i].status # "pending"

\* C5 witness: the flag is false and the pipelines of the first two files are
\* both in flight, the third not yet started
C5_Witness ==
    /\ Batch
    /\ ~concurrency
    /\ Len(tasks) = 3
    /\ InFlight(tasks[1])
    /\ InFlight(tasks[2])
    /\ tasks[3].status = "pending"

\* C6: a successful batch over N distinct inputs leaves N outputs, each input
\* written to outputdir/<stem>.json, and no two inputs share an output path
C6_OneOutputPerInput ==
    (Batch /\ Success) =>
        /\ \A i, j \in TaskIds : i # j => tasks[i].out # tasks[j].out
        /\ \A i \in TaskIds :
             \E e \in disk : e.path = Join(outputdir, tasks[i].file.stem, ".json")
        /\ Cardinality(disk) = Len(files)

\* C7: with several input files and no --output, the outputs go to a directory
\* named coordextract_output
C7_MultiDefaultOutputDir ==
    (mode = "multi" /\ output = NoPath) =>
        /\ outputdir.stem = "coordextract_output"
        /\ \A e \in disk : e.path.parent # <<>>
                            /\ e.path.parent[Len(e.path.parent)] = "coordextract_output"

\* C8: a successful run on a directory leaves exactly one JSON file per .gpx
\* entry, named <stem>.json, under <inputDir>/coordextract_output, or under the
\* output directory when one is given
C8_DirectoryOutputs ==
    (mode = "dir" /\ Success) =>
        LET dest == IF output = NoPath
                    THEN Join(inputs[1], "coordextract_output", "")
                    ELSE output[1]
            gpxs == { n \in listing : n[2] = ".gpx" }
        IN  /\ disk = { [ path |-> Join(dest, n[1], ".json"),
                          content |-> JsonOf(Join(inputs[1], n[1], n[2])) ] : n \in gpxs }
            /\ Cardinality(disk) = Cardinality(gpxs)

\* C8 witness: a directory of three track files beside another file and an old
\* output directory, concurrency enabled, no --output: three outputs
C8_Witness ==
    /\ mode = "dir"
    /\ Success
    /\ concurrency
    /\ output = NoPath
    /\ listing = EntryNames
    /\ Cardinality(disk) = 3

\* C9: process returns the JSON text when outputfile is None, and None when an
\* output file was given
C9_ProcessReturnsText ==
    (mode = "single" /\ process_ret # PyUnset) =>
        process_ret = (IF output = NoPath THEN JsonOf(inputs[1]) ELSE PyNone)

\* C10: the destination directory is created once, before any task exists: no
\* task exists or runs while the directory does not exist, and when mkdir fails
\* no task is ever created
C10_MkdirOnceBeforeTasks ==
    Batch =>
        /\ mkdirCalls <= 1
        /\ (mpc \in { "create_tasks", "gather" } \/ tasks # <<>>) =>
               (mkdirCalls = 1 /\ outputdir \in dirs)
        /\ outputdir \notin dirs => tasks = <<>>

\* C10 witness: tasks are running in a destination directory that one mkdir made
C10_Witness ==
    /\ Batch
    /\ mkdirCalls = 1
    /\ outputdir \in dirs
    /\ outputdir # OutOpt
    /\ Cardinality(InFlightIds) >= 2

\* the status changes a batch job may make in one step
JobStep(a, b) ==
    \/ a = b
    \/ a = "pending" /\ b = "reading"
    \/ a = "reading" /\ b \in { "writing", "succeeded", "failed", "cancelled" }
    \/ a = "writing" /\ b \in { "succeeded", "failed", "cancelled" }

\* C11 as stated: a job is only ever pending, running, succeeded or failed
C11_Original ==
    Batch =>
        \A i \in TaskIds :
            tasks[i].status \in { "pending", "reading", "writing", "succeeded", "failed" }

\* C11 amended: exactly one task is created per input file, all at once; a job
\* goes pending -> running -> succeeded | failed | cancelled and never back, so
\* it runs at most once; once succeeded, failed or cancelled it never changes
\* again; cancelled is where the shutdown of asyncio.run puts a job that is still
\* running when process_batch raises
C11_JobStateMachine ==
    [][ Batch =>
          /\ tasks # <<>> =>
                /\ Len(tasks) = Len(files)
                /\ \A i \in TaskIds : tasks[i].file = files[i]
                /\ tasks' # <<>> /\ Len(tasks') = Len(tasks)
                /\ \A i \in TaskIds :
                      /\ tasks'[i].file = tasks[i].file
                      /\ JobStep(tasks[i].status, tasks'[i].status)
                      /\ Finished(tasks[i]) => tasks'[i] = tasks[i]
          /\ (tasks = <<>> /\ tasks' # <<>>) =>
                /\ Len(tasks') = Len(files)
                /\ \A i \in 1..Len(tasks') :
                      tasks'[i].file = files[i] /\ tasks'[i].status = "pending"
      ]_vars

\* C11 witness: a batch of three jobs has ended with the first succeeded, the
\* second failed and the third cancelled
C11_Witness ==
    /\ Batch
    /\ mpc = "exited"
    /\ Len(tasks) = 3
    /\ tasks[1].status = "succeeded"
    /\ tasks[2].status = "failed"
    /\ tasks[3].status = "cancelled"

AwaitOver == mpc \in { "shutdown", "exit0", "except", "exited" }

\* C12: the await of the task set raises the error of the first task that
\* failed, and can do so as soon as a task has failed, whatever its siblings are
\* doing; the batch outcome is success only if every pipeline succeeded
C12_BatchFailsOnFirstFailure ==
    Batch =>
        /\ (/\ mpc = "gather"
            /\ \E i \in TaskIds : tasks[i].status = "failed"
            /\ \A j \in TaskIds : tasks[j].status # "pending")
              => ENABLED GatherRaise
        /\ (AwaitOver /\ error = None) =>
              \A i \in TaskIds : tasks[i].status = "succeeded"
        /\ (AwaitOver /\ tasks # <<>>) =>
              /\ (\E i \in TaskIds : tasks[i].status = "failed") => error # None
              /\ error # None =>
                    \E i \in TaskIds :
                        /\ tasks[i].first
                        /\ tasks[i].status = "failed"
                        /\ tasks[i].exc = error
                        /\ \A j \in TaskIds : j # i => ~tasks[j].first

\* C12 witness: process_batch has raised the ValueError of the first failure
\* while one sibling is still in flight and another has failed later with
\* another error
C12_Witness ==
    /\ Batch
    /\ mpc = "shutdown"
    /\ error = "ValueError"
    /\ \E i, j, k \in TaskIds :
         /\ tasks[i].first /\ tasks[i].exc = "ValueError"
         /\ tasks[j].status = "failed" /\ tasks[j].exc = "OSError"
         /\ InFlight(tasks[k])

\* C17: main takes exactly one dispatch branch and ends by exiting: with code 0
\* and nothing on the error stream when the branch did not raise, with code 1
\* after printing the message to the error stream when it raised one of the
\* exceptions the handler names; until it has exited it can take another step
C17_ExitCodes ==
    /\ mpc # "main" => mode \in { "dir", "single", "multi" }
    /\ mpc = "main" => mode = None
    /\ mpc # "exited" => (exitcode = <<>> /\ ENABLED Next)
    /\ mpc = "exited" =>
          /\ error = None => (exitcode = <<0>> /\ stderr = <<>>)
          /\ error # None => (error \in Caught /\ exitcode = <<1>> /\ stderr = <<error>>)

\* C17 witness: a single-file run has exited with code 0 after printing the text
C17_Witness ==
    /\ mode = "single"
    /\ mpc = "exited"
    /\ exitcode = <<0>>
    /\ Len(stdout) = 1
    /\ stderr = <<>>

GpxEntries == { n \in listing : n[2] = ".gpx" }

\* C18: in directory mode the tasks are those of the entries whose suffix is
\* .gpx and of no other entry, and only they get an output; a directory with no
\* such entry gets its destination directory made, no task, no output and
\* exit code 0
C18_OnlyGpxEntriesScheduled ==
    mode = "dir" =>
        /\ (/\ mpc \in { "gather", "shutdown", "exit0", "except", "exited" }
            /\ mkdirCalls = 1
            /\ outputdir \in dirs) =>
                 /\ { tasks[i].file : i \in TaskIds } = { Entry(n) : n \in GpxEntries }
                 /\ Len(tasks) = Cardinality(GpxEntries)
        /\ \A e \in disk : \E n \in GpxEntries : e.path = Join(outputdir, n[1], ".json")
        /\ GpxEntries = {} =>
              /\ tasks = <<>>
              /\ disk = {}
              /\ (mpc = "exited" /\ outputdir \in dirs) => exitcode = <<0>>

\* C18 witness: a directory holding only another file and an old output
\* directory has been processed: the destination exists, no task, exit code 0
C18_Witness ==
    /\ mode = "dir"
    /\ listing = { <<"x", ".txt">>, OldOutput }
    /\ mpc = "exited"
    /\ exitcode = <<0>>
    /\ mkdirCalls = 1
    /\ outputdir \in dirs
    /\ tasks = <<>>

====
